---- MODULE Spec2Model ----
(***************************************************************************)
(* Model of onmt/bin/train.py: train(opt), the orchestration of one        *)
(* consumer (trainer) process and one batch-producer process per device,   *)
(* the shared semaphore, the per-device queues and the error handler.      *)
(*                                                                         *)
(* train.py is modelled statement by statement (lines 151-197).  The       *)
(* bodies of consumer, batch_producer and ErrorHandler live in             *)
(* onmt/utils/distributed.py; they are modelled from their documented     *)
(* behaviour (Producer, Consumer, Error Handler).                          *)
(***************************************************************************)
EXTENDS Integers, Sequences, FiniteSets, TLC

\* ---- bounds of the model ----
MaxWorld == 2        \* opt.world_size ranges over 0..MaxWorld
MaxQueue == 1        \* opt.queue_size ranges over 1..MaxQueue
MaxUnits == 3        \* batches served by one producer's train_iter

VARIABLES
    world_size,      \* opt.world_size
    gpu_ranks,       \* opt.gpu_ranks
    queue_size,      \* opt.queue_size
    train_steps,     \* the work commanded to every consumer, in batches
    mainpc,          \* position of the main thread inside train()
    device_id,       \* loop variable of the for loops of train()
    semaphore,       \* value of mp.Semaphore(world_size * queue_size)
    queues,          \* the list `queues`: one FIFO per created mp.Queue
    error_queue,     \* mp.SimpleQueue() of error reports
    children,        \* ErrorHandler.children_pids
    listener,        \* the error handler's listener thread
    pending,         \* the report the listener took off error_queue
    cstate,          \* consumer process per ordinal
    pstate,          \* producer process per ordinal
    piter,           \* train_iter of each producer: stride, offset, position
    pbatch,          \* the batch a producer holds between acquire and put
    raised,          \* failures raised into the calling context of train()
    inline_calls,    \* device ids of inline train_process(opt, device_id=..)
    emitted,         \* every report put on error_queue, in order
    cascade,         \* ordinals of consumers that failed while all ran
    sent,            \* batches each producer has put on its queue, in order
    received,        \* batches each consumer has taken off its queue, in order
    opt_data,        \* opt.data on entry: list of (corpus_id, corpus_dict)
    dir_files,       \* file system: the files below the directory d
    seed,            \* opt.seed
    corpus_i,        \* position of the loop over opt.data.items()
    new_data_dict,   \* new_data_dict, in insertion order
    kv_pairs,        \* list(new_data_dict.items()) before the shuffle
    rerun            \* the shuffled mapping of a second run on the same input

vars == <<world_size, gpu_ranks, queue_size, mainpc, device_id, semaphore,
          queues, error_queue, children, listener, pending, cstate, pstate,
          piter, pbatch, raised, inline_calls, emitted, cascade,
          train_steps, sent, received, opt_data, dir_files, seed, corpus_i,
          new_data_dict, kv_pairs, rerun>>

inputs == <<world_size, gpu_ranks, queue_size, train_steps>>

fifo == <<sent, received>>

shard == <<opt_data, dir_files, seed, corpus_i, new_data_dict, kv_pairs, rerun>>

run == <<device_id, semaphore, queues, error_queue, children, listener,
         pending, cstate, pstate, piter, pbatch, raised, inline_calls,
         emitted, cascade>>

\* ---- values ----
\* the work commanded to a consumer: one batch, as many batches as one
\* producer serves, one batch more than that
StepChoices == {1, MaxUnits, MaxUnits + 1}

NoReport == [proc |-> <<"none", 0>>, detail |-> "none"]

\* the device lists tried for opt.gpu_ranks: no device, one, two
GpuRankLists == {<<>>, <<0>>, <<0, 1>>}

nb_gpu == Len(gpu_ranks)

Ordinals == 0..(nb_gpu - 1)

Alive(st) == st \in {"run", "get", "release"}

ConsumerPid(k) == <<"consumer", k>>

ProducerPid(k) == <<"producer", k>>

\* ---- train(): mode selection and construction ----
SemaphoreInitOver == (world_size + 1) * queue_size

SemaphoreInit == world_size * queue_size

MultiDevice == world_size > 1

inline_device_by_world == IF world_size = 1 THEN 0 ELSE -1

inline_device == IF nb_gpu = 1 THEN 0 ELSE -1

\* ---- train(): the four for loops ----
terminate_noop(st) == st

terminate(st) == IF Alive(st) THEN "terminated" ELSE st

joined_nowait(k) == TRUE

joined(k) == ~Alive(cstate[k])

ConsumerCountShort == nb_gpu - 1

ConsumerCount == nb_gpu

ProducerCountShort == nb_gpu - 1

ProducerCount == nb_gpu

TerminateLoop(d) ==
    IF d < ProducerCount THEN <<"terminate", d>> ELSE <<"returned", 0>>

JoinLoop(d) ==
    IF d < ConsumerCount THEN <<"join", d>> ELSE TerminateLoop(0)

ProducerLoop(d) ==
    IF d < ProducerCount THEN <<"producer_start", d>> ELSE JoinLoop(0)

ConsumerLoop(d) ==
    IF d < ConsumerCount THEN <<"consumer_start", d>> ELSE ProducerLoop(0)

Goto(target) ==
    /\ mainpc' = target[1]
    /\ device_id' = target[2]

add_child(pids, pid) == pids \cup {pid}

consumer_device_arg_zero(d) == 0

consumer_device_arg(d) == d

producer_queue_arg_zero(d) == 0

producer_queue_arg(d) == d

iter_stride_world == world_size

\* stride=nb_gpu
iter_stride == nb_gpu

build_train_iter(stride, offset) ==
    [stride |-> stride, offset |-> offset, pos |-> 0]

\* ---- paths and identifiers: strings as sequences of tokens ----
\* "/" is os.sep; a token stands for the characters it spells
JsonNames == {"a.json", "b.json", "c.json"}

\* the files that may lie below the directory d, relative to it
RelFiles == {<<"a.json">>, <<"b.json">>, <<"sub", "/", "c.json">>,
             <<"sub", "-", "c.json">>, <<"x.txt">>}

\* rank of the first character of a token, for the order of sorted()
TokenRank(t) ==
    CASE t = "-" -> 0 [] t = "/" -> 1 [] t = "a.json" -> 2 [] t = "b.json" -> 3
      [] t = "c.json" -> 4 [] t = "d" -> 5 [] t = "f.json" -> 6
      [] t = "sub" -> 7 [] OTHER -> 8

RECURSIVE StrLess(_, _)
StrLess(a, b) ==
    IF a = <<>> THEN b # <<>>
    ELSE IF b = <<>> THEN FALSE
    ELSE IF Head(a) = Head(b) THEN StrLess(Tail(a), Tail(b))
    ELSE TokenRank(Head(a)) < TokenRank(Head(b))

RECURSIVE sorted(_)
sorted(S) ==
    IF S = {} THEN <<>>
    ELSE LET m == CHOOSE x \in S : \A y \in S \ {x} : StrLess(x, y)
         IN  <<m>> \o sorted(S \ {m})

\* os.path.isdir(path): d and d/ name the one directory
isdir(path) == path \in {<<"d">>, <<"d", "/">>}

\* file.endswith('.json')
endswith_json(path) == path[Len(path)] \in JsonNames

\* os.path.join(a, b)
path_join(a, b) ==
    IF Head(b) = "/" THEN b
    ELSE IF a[Len(a)] = "/" THEN a \o b
    ELSE a \o <<"/">> \o b

\* directory part and file name of a path relative to the walked directory
LastSep(rel) ==
    IF \E i \in 1..Len(rel) : rel[i] = "/"
    THEN CHOOSE i \in 1..Len(rel) :
             rel[i] = "/" /\ \A j \in (i + 1)..Len(rel) : rel[j] # "/"
    ELSE 0

\* os.walk(top): os.path.join(root, file) of every file below top
walk_paths(top) ==
    {IF LastSep(rel) = 0
     THEN path_join(top, rel)
     ELSE path_join(path_join(top, SubSeq(rel, 1, LastSep(rel) - 1)),
                    SubSeq(rel, LastSep(rel) + 1, Len(rel))) :
     rel \in dir_files}

\* the sorted paths of the .json files below path_src
src_file_paths(path_src) ==
    sorted({f \in walk_paths(path_src) : endswith_json(f)})

\* len(src_file_paths) == 0
no_json_found_never(paths) == FALSE

no_json_found(paths) == Len(paths) = 0

\* src_file_path[len(corpus_dict["path_src"]):]
src_file(path, path_src) == SubSeq(path, Len(path_src) + 1, Len(path))

\* src_file.replace(os.path.sep, '-')
replace_sep(str) == [i \in 1..Len(str) |-> IF str[i] = "/" THEN "-" ELSE str[i]]

\* corpus_id + '-' + src_file.replace(os.path.sep, '-')
new_corpus_id(corpus_id, path, path_src) ==
    corpus_id \o <<"-">> \o replace_sep(src_file(path, path_src))

NoLabel == [kind |-> "None", items |-> <<>>]

\* the label_data of an expanded entry
new_label_data(cd, path) ==
    IF cd.label_data.kind = "list"
    THEN [kind |-> "list",
          items |-> [i \in 1..Len(cd.label_data.items) |->
                       path_join(cd.label_data.items[i],
                                 src_file(path, cd.path_src))]]
    ELSE NoLabel

\* copy.copy(corpus_dict) with path_src, path_tgt and label_data replaced
new_corpus_dict(cd, path) ==
    [path_src |-> path, path_tgt |-> path,
     label_data |-> new_label_data(cd, path)]

\* d[key] = val on a dict kept in insertion order
dict_set(d, key, val) ==
    IF \E i \in 1..Len(d) : d[i].key = key
    THEN [i \in 1..Len(d) |-> IF d[i].key = key THEN [key |-> key, val |-> val]
                              ELSE d[i]]
    ELSE Append(d, [key |-> key, val |-> val])

RECURSIVE expand_into(_, _, _, _)
expand_into(d, corpus_id, cd, paths) ==
    IF paths = <<>> THEN d
    ELSE expand_into(
             dict_set(d, new_corpus_id(corpus_id, Head(paths), cd.path_src),
                      new_corpus_dict(cd, Head(paths))),
             corpus_id, cd, Tail(paths))

\* ---- the seeded shuffle ----
\* the generator: a state in 0..15, the next state, a draw below n
rng_next(st) == (st * 5 + 3) % 16

rng_seeded(sd) == (sd * 7 + 1) % 16

\* utils.numpy_seed(seed): the generator is re-seeded inside the with block
shuffle_rng_ambient(ambient) == ambient

shuffle_rng(ambient) == rng_seeded(seed)

swap(x, i, j) == [x EXCEPT ![i] = x[j], ![j] = x[i]]

\* np.random.shuffle(x): for i = n..2, swap x[i] with x[j], j drawn in 1..i
RECURSIVE shuffle(_, _, _)
shuffle(x, i, st) ==
    IF i <= 1 THEN x
    ELSE shuffle(swap(x, i, (st % i) + 1), i - 1, rng_next(st))

\* ---- the inputs tried for opt.data and opt.seed ----
KeyAbsent == [kind |-> "absent", items |-> <<>>]

DirCorpus(id, trailing, labels) ==
    [key |-> id,
     val |-> [path_src |-> IF trailing THEN <<"d", "/">> ELSE <<"d">>,
              path_tgt |-> IF trailing THEN <<"d", "/">> ELSE <<"d">>,
              label_data |-> IF labels
                             THEN [kind |-> "list", items |-> <<<<"l">>>>]
                             ELSE KeyAbsent]]

FileCorpus(id) ==
    [key |-> id,
     val |-> [path_src |-> <<"f.json">>, path_tgt |-> <<"f.json">>,
              label_data |-> KeyAbsent]]

DirCorpora == {DirCorpus(<<"c">>, t, l) : t \in BOOLEAN, l \in BOOLEAN}

FileCorpora == {FileCorpus(<<"f">>), FileCorpus(<<"c", "-", "a.json">>)}

DataChoices ==
    {<<D>> : D \in DirCorpora} \cup {<<F>> : F \in FileCorpora}
    \cup {<<D, F>> : D \in DirCorpora, F \in FileCorpora}
    \cup {<<F, D>> : F \in FileCorpora, D \in DirCorpora}
    \cup {<<D, DirCorpus(<<"e">>, TRUE, FALSE)>> : D \in DirCorpora}

Seeds == {1, 2}

\* generator states left behind by the code that ran before the with block
AmbientStates == {0, 6, 11}

\* ---- Init ----
\* nothing constructed, nothing spawned yet
InitRun ==
    /\ device_id = 0
    /\ semaphore = 0
    /\ queues = <<>>
    /\ error_queue = <<>>
    /\ children = {}
    /\ listener = "none"
    /\ pending = NoReport
    /\ cstate = [k \in Ordinals |-> "off"]
    /\ pstate = [k \in Ordinals |-> "off"]
    /\ piter = [k \in Ordinals |-> build_train_iter(0, 0)]
    /\ pbatch = [k \in Ordinals |-> <<>>]
    /\ raised = <<>>
    /\ inline_calls = <<>>
    /\ emitted = <<>>
    /\ cascade = {}
    /\ sent = [k \in Ordinals |-> <<>>]
    /\ received = [k \in Ordinals |-> <<>>]

\* entry of the mode selection of train(), opt.data being one file corpus
Init ==
    /\ world_size \in 0..MaxWorld
    /\ gpu_ranks \in GpuRankLists
    /\ queue_size \in 1..MaxQueue
    /\ train_steps \in StepChoices
    /\ mainpc = "start"
    /\ InitRun
    /\ opt_data = <<FileCorpus(<<"f">>)>>
    /\ dir_files = {}
    /\ seed \in {1}
    /\ corpus_i = 2
    /\ new_data_dict = opt_data
    /\ kv_pairs = opt_data
    /\ rerun = opt_data

\* entry of the loop over opt.data.items()
ShardInit ==
    /\ world_size \in 0..MaxWorld
    /\ gpu_ranks \in GpuRankLists
    /\ queue_size \in 1..MaxQueue
    /\ train_steps \in StepChoices
    /\ mainpc = "expand"
    /\ InitRun
    /\ opt_data \in DataChoices
    /\ dir_files \in SUBSET RelFiles
    /\ seed \in Seeds
    /\ corpus_i = 1
    /\ new_data_dict = <<>>
    /\ kv_pairs = <<>>
    /\ rerun = <<>>

\* ---- train(): opt.data expanded and shuffled ----
\* one iteration of `for corpus_id, corpus_dict in opt.data.items()`
ExpandCorpus ==
    /\ mainpc = "expand"
    /\ LET corpus_id == opt_data[corpus_i].key
           corpus_dict == opt_data[corpus_i].val
           paths == src_file_paths(corpus_dict.path_src)
           more == IF corpus_i < Len(opt_data) THEN "expand" ELSE "shuffle"
       IN  IF isdir(corpus_dict.path_src)
           THEN IF no_json_found(paths)
                THEN /\ mainpc' = "config_error"
                     /\ UNCHANGED <<new_data_dict, corpus_i>>
                ELSE /\ new_data_dict' = expand_into(new_data_dict, corpus_id,
                                                     corpus_dict, paths)
                     /\ corpus_i' = corpus_i + 1
                     /\ mainpc' = more
           ELSE /\ new_data_dict' =
                     dict_set(new_data_dict, corpus_id, corpus_dict)
                /\ corpus_i' = corpus_i + 1
                /\ mainpc' = more
    /\ UNCHANGED <<inputs, fifo, run, opt_data, dir_files, seed, kv_pairs,
                   rerun>>

\* with utils.numpy_seed(opt.seed): kv_pairs = list(..); np.random.shuffle(..)
\* kv_pairs keeps the list as built, new_data_dict gets the shuffled one;
\* the generator's state before the with block is whatever earlier code left;
\* rerun is what a second run on the same opt.data and seed produces
Shuffle ==
    /\ mainpc = "shuffle"
    /\ kv_pairs' = new_data_dict
    /\ \E ambient \in AmbientStates, ambient2 \in AmbientStates :
          /\ new_data_dict' = shuffle(new_data_dict, Len(new_data_dict),
                                      shuffle_rng(ambient))
          /\ rerun' = shuffle(new_data_dict, Len(new_data_dict),
                              shuffle_rng(ambient2))
    /\ mainpc' = "start"
    /\ UNCHANGED <<inputs, fifo, run, opt_data, dir_files, seed, corpus_i>>

\* ---- main thread ----
\* world_size > 1: semaphore, error queue, error handler, then the first loop
Setup ==
    /\ mainpc = "start"
    /\ MultiDevice
    /\ semaphore' = SemaphoreInit
    /\ listener' = "waiting"
    /\ Goto(ConsumerLoop(0))
    /\ UNCHANGED <<inputs, shard, fifo,
                   queues, error_queue, children, pending, cstate,
                   pstate, piter, pbatch, raised, inline_calls, emitted,
                   cascade>>

\* world_size <= 1: train_process(opt, device_id=0) or (.., device_id=-1)
Inline ==
    /\ mainpc = "start"
    /\ ~MultiDevice
    /\ inline_calls' = Append(inline_calls, inline_device)
    /\ Goto(<<"returned", 0>>)
    /\ UNCHANGED <<inputs, shard, fifo,
                   semaphore, queues, error_queue, children, listener,
                   pending, cstate, pstate, piter, pbatch, raised, emitted,
                   cascade>>

\* q = mp.Queue(queue_size); queues += [q]; procs.append(..); procs[d].start()
ConsumerStart ==
    /\ mainpc = "consumer_start"
    /\ queues' = Append(queues, <<>>)
    /\ cstate' = [cstate EXCEPT ![device_id] = "get"]
    /\ Goto(<<"consumer_add", device_id>>)
    /\ UNCHANGED <<inputs, shard, fifo,
                   semaphore, error_queue, children, listener, pending,
                   pstate, piter, pbatch, raised, inline_calls, emitted,
                   cascade>>

\* error_handler.add_child(procs[device_id].pid)
ConsumerAdd ==
    /\ mainpc = "consumer_add"
    /\ children' = add_child(children, ConsumerPid(device_id))
    /\ Goto(ConsumerLoop(device_id + 1))
    /\ UNCHANGED <<inputs, shard, fifo,
                   semaphore, queues, error_queue, listener, pending,
                   cstate, pstate, piter, pbatch, raised, inline_calls,
                   emitted, cascade>>

\* train_iter = _build_train_iter(..); producers.append(..); producers[d].start()
ProducerStart ==
    /\ mainpc = "producer_start"
    /\ piter' = [piter EXCEPT
                    ![device_id] = build_train_iter(iter_stride, device_id)]
    /\ pstate' = [pstate EXCEPT ![device_id] = "run"]
    /\ Goto(<<"producer_add", device_id>>)
    /\ UNCHANGED <<inputs, shard, fifo,
                   semaphore, queues, error_queue, children, listener,
                   pending, cstate, pbatch, raised, inline_calls, emitted,
                   cascade>>

\* error_handler.add_child(producers[device_id].pid)
ProducerAdd ==
    /\ mainpc = "producer_add"
    /\ children' = add_child(children, ProducerPid(device_id))
    /\ Goto(ProducerLoop(device_id + 1))
    /\ UNCHANGED <<inputs, shard, fifo,
                   semaphore, queues, error_queue, listener, pending,
                   cstate, pstate, piter, pbatch, raised, inline_calls,
                   emitted, cascade>>

\* for p in procs: p.join()
Join ==
    /\ mainpc = "join"
    /\ joined(device_id)
    /\ Goto(JoinLoop(device_id + 1))
    /\ UNCHANGED <<inputs, shard, fifo,
                   semaphore, queues, error_queue, children, listener,
                   pending, cstate, pstate, piter, pbatch, raised,
                   inline_calls, emitted, cascade>>

\* for p in producers: p.terminate()
Terminate ==
    /\ mainpc = "terminate"
    /\ pstate' = [pstate EXCEPT ![device_id] = terminate(pstate[device_id])]
    /\ Goto(TerminateLoop(device_id + 1))
    /\ UNCHANGED <<inputs, shard, fifo,
                   semaphore, queues, error_queue, children, listener,
                   pending, cstate, piter, pbatch, raised, inline_calls,
                   emitted, cascade>>

\* ---- batch_producer(train_iter, queues[k], semaphore, opt) ----
HasNext(k) == piter[k].pos < MaxUnits

Unit(k) == piter[k].offset + piter[k].pos * piter[k].stride

acquire_free(sem) == sem

\* semaphore.acquire() takes one permit
acquire(sem) == sem - 1

\* b = next batch of the iterator, then semaphore.acquire()
ProducerAcquire(k) ==
    /\ pstate[k] = "run"
    /\ pbatch[k] = <<>>
    /\ HasNext(k)
    /\ semaphore > 0
    /\ semaphore' = acquire(semaphore)
    /\ pbatch' = [pbatch EXCEPT ![k] = <<Unit(k)>>]
    /\ piter' = [piter EXCEPT ![k].pos = @ + 1]
    /\ UNCHANGED <<inputs, shard, fifo,
                   mainpc, device_id, queues, error_queue, children,
                   listener, pending, cstate, pstate, raised, inline_calls,
                   emitted, cascade>>

\* queue.put(b): blocks while the queue holds queue_size batches
ProducerPut(k) ==
    /\ pstate[k] = "run"
    /\ pbatch[k] # <<>>
    /\ Len(queues[producer_queue_arg(k) + 1]) < queue_size
    /\ queues' = [queues EXCEPT
                     ![producer_queue_arg(k) + 1] = Append(@, pbatch[k][1])]
    /\ sent' = [sent EXCEPT ![k] = Append(@, pbatch[k][1])]
    /\ pbatch' = [pbatch EXCEPT ![k] = <<>>]
    /\ UNCHANGED <<inputs, shard, received,
                   mainpc, device_id, semaphore, error_queue, children,
                   listener, pending, cstate, pstate, piter, raised,
                   inline_calls, emitted, cascade>>

\* the iterator is exhausted: the producer exits
ProducerDrain(k) ==
    /\ pstate[k] = "run"
    /\ pbatch[k] = <<>>
    /\ ~HasNext(k)
    /\ pstate' = [pstate EXCEPT ![k] = "drained"]
    /\ UNCHANGED <<inputs, shard, fifo,
                   mainpc, device_id, semaphore, queues, error_queue,
                   children, listener, pending, cstate, piter, pbatch, raised,
                   inline_calls, emitted, cascade>>

\* an exception inside batch_producer, which was not given error_queue
ProducerFail(k) ==
    /\ Alive(pstate[k])
    /\ pstate' = [pstate EXCEPT ![k] = "failed"]
    /\ UNCHANGED <<inputs, shard, fifo,
                   mainpc, device_id, semaphore, queues, error_queue,
                   children, listener, pending, cstate, piter, pbatch, raised,
                   inline_calls, emitted, cascade>>

\* ---- consumer(train_process, opt, device_id, error_queue, q, semaphore) ----
AllRunning ==
    /\ nb_gpu > 0
    /\ \A j \in Ordinals : Alive(cstate[j]) /\ Alive(pstate[j])

ConsumerReport(k, where) ==
    [proc |-> ConsumerPid(consumer_device_arg(k)), detail |-> where]

\* batch = batch_queue.get()
ConsumerGet(k) ==
    /\ cstate[k] = "get"
    /\ Len(received[k]) < train_steps
    /\ Len(queues[k + 1]) > 0
    /\ received' = [received EXCEPT ![k] = Append(@, Head(queues[k + 1]))]
    /\ queues' = [queues EXCEPT ![k + 1] = Tail(@)]
    /\ cstate' = [cstate EXCEPT ![k] = "release"]
    /\ UNCHANGED <<inputs, shard, sent,
                   mainpc, device_id, semaphore, error_queue, children,
                   listener, pending, pstate, piter, pbatch, raised,
                   inline_calls, emitted, cascade>>

\* semaphore.release(), then the compute step on the batch
ConsumerRelease(k) ==
    /\ cstate[k] = "release"
    /\ semaphore' = semaphore + 1
    /\ cstate' = [cstate EXCEPT ![k] = "get"]
    /\ UNCHANGED <<inputs, shard, fifo,
                   mainpc, device_id, queues, error_queue, children,
                   listener, pending, pstate, piter, pbatch, raised,
                   inline_calls, emitted, cascade>>

\* train_process returns: no more work commanded
ConsumerFinish(k) ==
    /\ cstate[k] = "get"
    /\ Len(received[k]) = train_steps
    /\ cstate' = [cstate EXCEPT ![k] = "done"]
    /\ UNCHANGED <<inputs, shard, fifo,
                   mainpc, device_id, semaphore, queues, error_queue,
                   children, listener, pending, pstate, piter, pbatch, raised,
                   inline_calls, emitted, cascade>>

\* an exception inside the consumer: report on error_queue, then exit
ConsumerFail(k) ==
    /\ Alive(cstate[k])
    /\ error_queue' = Append(error_queue, ConsumerReport(k, cstate[k]))
    /\ emitted' = Append(emitted, ConsumerReport(k, cstate[k]))
    /\ cstate' = [cstate EXCEPT ![k] = "failed"]
    /\ cascade' = IF AllRunning THEN cascade \cup {k} ELSE cascade
    /\ UNCHANGED <<inputs, shard, fifo,
                   mainpc, device_id, semaphore, queues, children,
                   listener, pending, pstate, piter, pbatch, raised,
                   inline_calls>>

\* ---- ErrorHandler ----
\* the listener thread: blocks on error_queue.get(), then signals the main thread
ErrorListener ==
    /\ listener = "waiting"
    /\ Len(error_queue) > 0
    /\ pending' = Head(error_queue)
    /\ error_queue' = Tail(error_queue)
    /\ listener' = "signalled"
    /\ UNCHANGED <<inputs, shard, fifo,
                   mainpc, device_id, semaphore, queues, children,
                   cstate, pstate, piter, pbatch, raised, inline_calls,
                   emitted, cascade>>

Kill(st, pid) == IF pid \in children /\ Alive(st) THEN "killed" ELSE st

\* the signal handler, run by the main thread wherever it is: terminate every
\* registered child, raise the reported failure
SignalHandler ==
    /\ listener = "signalled"
    /\ listener' = "done"
    /\ cstate' = [k \in Ordinals |-> Kill(cstate[k], ConsumerPid(k))]
    /\ pstate' = [k \in Ordinals |-> Kill(pstate[k], ProducerPid(k))]
    /\ raised' = Append(raised, pending)
    /\ mainpc' = IF mainpc = "returned" THEN mainpc ELSE "raised"
    /\ UNCHANGED <<inputs, shard, fifo,
                   device_id, semaphore, queues, error_queue, children,
                   pending, piter, pbatch, inline_calls, emitted, cascade>>

\* ---- specification ----
Progress ==
    \/ Setup
    \/ Inline
    \/ ConsumerStart
    \/ ConsumerAdd
    \/ ProducerStart
    \/ ProducerAdd
    \/ Join
    \/ Terminate
    \/ ErrorListener
    \/ SignalHandler
    \/ \E k \in Ordinals : ProducerAcquire(k)
    \/ \E k \in Ordinals : ProducerPut(k)
    \/ \E k \in Ordinals : ProducerDrain(k)
    \/ \E k \in Ordinals : ConsumerGet(k)
    \/ \E k \in Ordinals : ConsumerRelease(k)
    \/ \E k \in Ordinals : ConsumerFinish(k)

Next ==
    \/ Progress
    \/ \E k \in Ordinals : ProducerFail(k)
    \/ \E k \in Ordinals : ConsumerFail(k)

Spec == Init /\ [][Next]_vars

\* train() from the loop over opt.data to the end of the two spawn loops
ShardNext ==
    \/ ExpandCorpus
    \/ Shuffle
    \/ Setup
    \/ Inline
    \/ ConsumerStart
    \/ ConsumerAdd
    \/ ProducerStart
    \/ ProducerAdd

ShardSpec == ShardInit /\ [][ShardNext]_vars

\* ---- derived quantities used by the properties ----
\* permits acquired and not yet released: initial value minus current value
Outstanding == SemaphoreInit - semaphore

RECURSIVE QueuedUnits(_)
QueuedUnits(n) == IF n = 0 THEN 0 ELSE Len(queues[n]) + QueuedUnits(n - 1)

HeldBatches == Cardinality({k \in Ordinals : pbatch[k] # <<>>})

Consumers == {k \in Ordinals : cstate[k] # "off"}

Producers == {k \in Ordinals : pstate[k] # "off"}

NoneRunning == \A k \in Ordinals : ~Alive(cstate[k]) /\ ~Alive(pstate[k])

FailureFree == \A k \in Ordinals : cstate[k] # "failed" /\ pstate[k] # "failed"

SpawnDone == MultiDevice /\ mainpc \in {"join", "terminate", "returned"}

CleanEnd == MultiDevice /\ mainpc = "returned" /\ FailureFree

C2_PermitBound ==
    (MultiDevice /\ mainpc # "start") =>
        /\ Outstanding >= 0
        /\ Outstanding <= world_size * queue_size

\* the pool is exhausted while a producer still has a batch to acquire for
C2_Witness ==
    /\ MultiDevice
    /\ Outstanding = world_size * queue_size
    /\ \E k \in Ordinals : pstate[k] = "run" /\ pbatch[k] = <<>> /\ HasNext(k)

\* C3 as stated: when a multi-device run ends without failure, the number of
\* outstanding permits is 0.
C3_Original == CleanEnd => Outstanding = 0

\* C3 amended: when a multi-device run ends without failure, the outstanding
\* permits are exactly those of the batches that were acquired and never
\* dequeued: the batches left in the queues plus the batches held by producers
\* that were stopped between acquire and put.
C3_PermitsAtEnd ==
    CleanEnd => Outstanding = QueuedUnits(Len(queues)) + HeldBatches

\* a clean end with a batch left in a queue and a batch held by a producer
C3_Witness ==
    /\ CleanEnd
    /\ QueuedUnits(Len(queues)) > 0
    /\ HeldBatches > 0
    /\ \E k \in Ordinals : pstate[k] = "terminated"

\* C4: single raised failure. In an aborted multi-device run the caller has
\* seen exactly one raised failure; it is the first report that was emitted,
\* it names a consumer that did fail, with the detail of that failure, and the
\* reports emitted after it stay on the error queue, never acted upon.
C4_SingleRaisedFailure ==
    /\ mainpc = "raised" => raised # <<>>
    /\ raised # <<>> =>
        /\ Len(raised) = 1
        /\ listener = "done"
        /\ raised[1] = emitted[1]
        /\ \E k \in Ordinals :
              /\ raised[1].proc = ConsumerPid(k)
              /\ cstate[k] = "failed"
              /\ raised[1].detail \in {"get", "release"}
        /\ emitted = <<raised[1]>> \o error_queue

\* an aborted run in which both consumers and a producer failed
C4_Witness ==
    /\ mainpc = "raised"
    /\ Len(emitted) = 2
    /\ Len(error_queue) = 1
    /\ raised[1].proc = ConsumerPid(1)
    /\ \E k \in Ordinals : pstate[k] = "failed"

\* C5: producer failure is propagated. A producer that suffered an internal
\* failure has emitted an error report on the error queue.
C5_ProducerFailureReported ==
    \A k \in Ordinals :
        pstate[k] = "failed" =>
            \E i \in 1..Len(emitted) : emitted[i].proc = ProducerPid(k)

\* C6: no survivor after abort. Once the failure raised by the error handler
\* has propagated out of train(), no consumer or producer started by the run
\* is still running.
C6_NoSurvivor == mainpc = "raised" => NoneRunning

\* C7: two-phase spawn. No producer is started, no permit acquired and no
\* batch queued until every consumer has been started and registered with the
\* error handler.
C7_TwoPhaseSpawn ==
    (\E j \in Ordinals : cstate[j] = "off" \/ ConsumerPid(j) \notin children) =>
        /\ Producers = {}
        /\ semaphore \in {0, world_size * queue_size}
        /\ \A i \in 1..Len(queues) : queues[i] = <<>>
        /\ HeldBatches = 0

\* two consumers started and registered, a producer started and serving
C7_Witness ==
    /\ nb_gpu = 2
    /\ \A j \in Ordinals : cstate[j] # "off" /\ ConsumerPid(j) \in children
    /\ \E k \in Ordinals : pstate[k] = "run" /\ Len(queues[k + 1]) > 0

\* C8 as stated: world_size = 0 spawns no process and runs the compute step
\* once inline with device -1; world_size = 1 spawns no process and runs it
\* once inline with device 0, for every device list.
C8_Original ==
    (~MultiDevice /\ mainpc = "returned") =>
        /\ Consumers = {} /\ Producers = {} /\ queues = <<>>
        /\ inline_calls = <<IF world_size = 0 THEN -1 ELSE 0>>

\* C8 amended: world_size <= 1 spawns no process and runs the compute step
\* exactly once inline; the device is 0 when the device list has exactly one
\* entry and -1 otherwise, whatever world_size is.
C8_InlineMode ==
    /\ (~MultiDevice /\ mainpc = "returned") =>
          /\ Consumers = {} /\ Producers = {} /\ queues = <<>>
          /\ children = {} /\ listener = "none"
          /\ Len(inline_calls) = 1
          /\ (Len(gpu_ranks) = 1 => inline_calls[1] = 0)
          /\ (Len(gpu_ranks) # 1 => inline_calls[1] = -1)
    /\ (~MultiDevice /\ mainpc = "start") => inline_calls = <<>>

\* world_size = 0 with a one-entry device list ran inline on device 0
C8_Witness ==
    /\ world_size = 0
    /\ Len(gpu_ranks) = 1
    /\ mainpc = "returned"
    /\ inline_calls = <<0>>

\* C9 as stated: for world_size = N > 1 and every device list, train creates
\* exactly N queues and spawns exactly N consumers and N producers.
C9_Original ==
    SpawnDone =>
        /\ Len(queues) = world_size
        /\ Cardinality(Consumers) = world_size
        /\ Cardinality(Producers) = world_size

\* C9 amended: for world_size > 1, train creates exactly len(gpu_ranks)
\* queues and spawns exactly len(gpu_ranks) consumers and producers, one of
\* each per ordinal 0..len(gpu_ranks)-1, producer k on queue k with iterator
\* offset k; the permit pool holds at most world_size * queue_size permits.
C9_SpawnCount ==
    SpawnDone =>
        /\ Len(queues) = Len(gpu_ranks)
        /\ Consumers = 0..(Len(gpu_ranks) - 1)
        /\ Producers = 0..(Len(gpu_ranks) - 1)
        /\ \A k \in Producers : piter[k].offset = k
        /\ \A k \in Consumers : ConsumerPid(k) \in children
        /\ \A k \in Producers : ProducerPid(k) \in children
        /\ semaphore <= world_size * queue_size

\* both passes done with one device under world_size = 2
C9_Witness ==
    /\ world_size = 2
    /\ Len(gpu_ranks) = 1
    /\ mainpc = "join"
    /\ Len(queues) = 1

\* C10: success-path teardown. In a failure-free multi-device run no producer
\* is forcibly stopped before every consumer has finished, no consumer is
\* ever forcibly stopped, and when train() returns no producer is running.
C10_TeardownOrder ==
    (MultiDevice /\ FailureFree) =>
        /\ (\E k \in Ordinals : pstate[k] \in {"terminated", "killed"}) =>
              \A j \in Ordinals : cstate[j] = "done"
        /\ \A j \in Ordinals : cstate[j] \notin {"terminated", "killed"}
        /\ mainpc = "returned" => \A k \in Ordinals : ~Alive(pstate[k])

\* a failure-free run returned after stopping a producer that was running
C10_Witness ==
    /\ CleanEnd
    /\ nb_gpu = 2
    /\ \E k \in Ordinals : pstate[k] = "terminated"
    /\ \E k \in Ordinals : pstate[k] = "drained"

\* ---- first-in first-out delivery ----
IsPrefix(a, b) == Len(a) <= Len(b) /\ SubSeq(b, 1, Len(a)) = a

Elems(q) == {q[i] : i \in 1..Len(q)}

DirSources == {i \in 1..Len(opt_data) : isdir(opt_data[i].val.path_src)}

FileSources == (1..Len(opt_data)) \ DirSources

JsonUnder(i) == {f \in dir_files : endswith_json(f)}

EmptyDirSource == \E i \in DirSources : JsonUnder(i) = {}

Assigned == mainpc \notin {"expand", "shuffle", "config_error"}

Keys(d) == {d[i].key : i \in 1..Len(d)}

JsonCount(i) == Cardinality(JsonUnder(i))

RECURSIVE JsonTotal(_)
JsonTotal(S) ==
    IF S = {} THEN 0
    ELSE LET x == CHOOSE y \in S : TRUE IN JsonCount(x) + JsonTotal(S \ {x})

\* C12: an empty directory is a pre-flight fatal error. When some directory
\* source of opt.data holds no .json file, train never gets past the loop over
\* opt.data: no consumer and no producer process is ever started, the compute
\* step is never called inline, and once train can do nothing more it has
\* stopped with the configuration error.
C12_EmptyDirFatal ==
    EmptyDirSource =>
        /\ mainpc \in {"expand", "config_error"}
        /\ Consumers = {}
        /\ Producers = {}
        /\ inline_calls = <<>>
        /\ ~ENABLED ShardNext => mainpc = "config_error"

C12_Witness ==
    /\ mainpc = "config_error"
    /\ corpus_i = 2
    /\ \E f \in dir_files : ~endswith_json(f)
    /\ world_size = 2
    /\ nb_gpu = 2

\* C13: directory expansion identifiers. For opt.data holding one directory
\* source with identifier id and no label roots, the directory holding exactly
\* a.json and b.json, the expanded mapping has exactly the two identifiers
\* id-a.json and id-b.json, each entry with a None label reference; this for
\* the directory path written with or without a trailing separator.
C13_Original ==
    (/\ mainpc \notin {"expand", "config_error"}
     /\ Len(opt_data) = 1
     /\ DirSources = {1}
     /\ opt_data[1].val.label_data = KeyAbsent
     /\ dir_files = {<<"a.json">>, <<"b.json">>})
    => /\ Len(new_data_dict) = 2
       /\ Keys(new_data_dict) = {opt_data[1].key \o <<"-", "a.json">>,
                                 opt_data[1].key \o <<"-", "b.json">>}
       /\ \A i \in 1..Len(new_data_dict) :
              new_data_dict[i].val.label_data = NoLabel

C18_Original ==
    Assigned =>
        /\ Len(new_data_dict) =
               JsonTotal(DirSources) + Cardinality(FileSources)
        /\ Cardinality(Keys(new_data_dict)) = Len(new_data_dict)
        /\ Len(new_data_dict) = Len(kv_pairs)
        /\ \A i \in 1..Len(kv_pairs) :
               \E j \in 1..Len(new_data_dict) : new_data_dict[j] = kv_pairs[i]

\* ---- properties of the run of the producers and consumers ----
ProducerBlocked(k) ==
    /\ pstate[k] = "run"
    /\ \/ /\ pbatch[k] = <<>>
          /\ HasNext(k)
          /\ semaphore = 0
       \/ /\ pbatch[k] # <<>>
          /\ Len(queues[producer_queue_arg(k) + 1]) >= queue_size

ConsumerBlocked(k) ==
    /\ cstate[k] = "get"
    /\ Len(received[k]) < train_steps
    /\ queues[k + 1] = <<>>

HasUnitToDeliver(k) == Alive(pstate[k]) /\ (pbatch[k] # <<>> \/ HasNext(k))

ServedBy(k) ==
    {piter[k].offset + j * piter[k].stride : j \in 0..(MaxUnits - 1)}

\* C15: termination on finite data. In a multi-device run without failure,
\* every train_iter being finite, once nothing more can happen every consumer
\* has exited cleanly, no producer is running and train has returned.
C15_TerminationOnFiniteData ==
    (MultiDevice /\ FailureFree /\ ~ENABLED Progress) =>
        /\ mainpc = "returned"
        /\ \A k \in Consumers : cstate[k] = "done"
        /\ \A k \in Producers : ~Alive(pstate[k])

\* C16: every queued unit is backed by a permit. In a multi-device run the
\* batches lying in all queues together are never more than the permits
\* taken from the semaphore and not yet given back, and so never more than
\* world_size * queue_size.
C16_QueuedBackedByPermit ==
    MultiDevice =>
        /\ QueuedUnits(Len(queues)) + HeldBatches <= Outstanding
        /\ QueuedUnits(Len(queues)) <= world_size * queue_size

C16_Witness ==
    /\ MultiDevice
    /\ QueuedUnits(Len(queues)) = world_size * queue_size
    /\ \E k \in Ordinals : received[k] # <<>>

\* C17: no deadlock between the semaphore and the queues. A multi-device run
\* without failure never reaches a state where some producer still has a
\* batch to deliver, every live producer is blocked on acquire or on its full
\* queue, and every live consumer is blocked on its empty queue. Only states
\* after the two spawn loops are looked at, where no further process can come.
C17_NoDeadlock ==
    ~(/\ SpawnDone
      /\ FailureFree
      /\ \E k \in Ordinals : HasUnitToDeliver(k)
      /\ \E k \in Ordinals : Alive(cstate[k])
      /\ \A k \in Ordinals : Alive(pstate[k]) => ProducerBlocked(k)
      /\ \A k \in Ordinals : Alive(cstate[k]) => ConsumerBlocked(k))

\* C19 as stated: the producer with ordinal k iterates with stride world_size
\* and offset k, and every data index is served by exactly one producer.
C19_Original ==
    (SpawnDone /\ Producers # {}) =>
        /\ \A k \in Producers :
               piter[k].stride = world_size /\ piter[k].offset = k
        /\ \A i \in 0..(world_size * MaxUnits - 1) :
               Cardinality({k \in Producers : i \in ServedBy(k)}) = 1

\* C19: striding partitions the data. Once the spawn loops are over, the
\* producer with ordinal k iterates with stride len(gpu_ranks), the number of
\* producers spawned, and offset k; every data index is served by exactly one
\* producer, and a producer has only put batches of its own indices.
C19_StridePartition ==
    SpawnDone =>
        /\ Producers = 0..(nb_gpu - 1)
        /\ \A k \in Producers :
               piter[k].stride = nb_gpu /\ piter[k].offset = k
        /\ \A i \in 0..(nb_gpu * MaxUnits - 1) :
               Cardinality({k \in Producers : i \in ServedBy(k)}) = 1
        /\ \A k \in Producers : Elems(sent[k]) \subseteq ServedBy(k)

C19_Witness ==
    /\ SpawnDone
    /\ nb_gpu = 2
    /\ \A k \in Producers : Len(sent[k]) = MaxUnits

====
